---- MODULE Spec2Model ----
(***************************************************************************)
(* Model of scripts/train.py: the __main__ block (argument parser) and     *)
(* main(args), one action per statement that calls out of the script.      *)
(*                                                                         *)
(* Optional values are sets of at most one element: None is {}, a value v  *)
(* is {v}.  The objects built by external constructors are records of the  *)
(* arguments the script passes to them.  Every external call either        *)
(* returns or raises; the script catches nothing.                          *)
(***************************************************************************)
EXTENDS Integers, Sequences, FiniteSets, TLC

\* ------------------------------------------------------------------ bounds
MaxFeatures == 2    \* dm.n_features ranges over 1..MaxFeatures
MaxClasses == 2     \* nunique() of the classify column ranges over 0..MaxClasses
MaxSeqLen == 2      \* --seq_len on the command line ranges over 1..MaxSeqLen

\* ------------------------------------------------------- program constants
SEED == 2299
DEVICES == 1
PATIENCE == 10

None == {}

Some(v) == {v}

\* The value held by a non-None optional.
The(o) == CHOOSE v \in o : TRUE

\* pathlib.Path(s): a path object, not the string it was made from.
Path(s) == [path |-> s]

Digits == <<"0", "1", "2", "3", "4", "5", "6", "7", "8", "9">>

\* str(n) for one decimal digit, as typed on the command line.
StrOfInt(n) == Digits[n + 1]

\* int(s) for one decimal digit.
IntOfStr(s) == (CHOOSE i \in 1..Len(Digits) : Digits[i] = s) - 1

\* Python truthiness of an Optional[str]: None and "" are falsy.
Truthy(o) == o # None /\ o # Some("")

Options == {"name", "logs", "load", "strategy", "classify", "data_path", "seq_len"}

\* Defaults of the options: argparse gives None where add_argument names none.
DefaultOf(opt) == IF opt = "strategy" THEN Some("ddp") ELSE None

\* The type= conversion of each option, applied to a string given on the
\* command line (defaults are not converted: they are None or already str).
Convert(opt, s) ==
    CASE opt = "logs" -> Path(s)
      [] opt = "seq_len" -> IntOfStr(s)
      [] OTHER -> s

\* parser.parse_args(): the namespace for a command line cl, a mapping from
\* option to the string given for it (None when the option is absent).
ParseArgs(cl) ==
    [opt \in Options |->
        IF cl[opt] = None THEN DefaultOf(opt) ELSE Some(Convert(opt, The(cl[opt])))]

\* The command lines explored.
CommandLines ==
    [name : {None, Some("exp")},
     logs : {None, Some("runs")},
     load : {None, Some(""), Some("last.ckpt")},
     strategy : {None, Some("ddp"), Some("dp")},
     classify : {None, Some(""), Some("cell_type")},
     data_path : {None, Some("ts.h5ad")},
     seq_len : {None} \cup {Some(StrOfInt(n)) : n \in 1..MaxSeqLen}]

VARIABLES
    pc,                   \* the statement about to run, "exit" or "raised"
    argv,                 \* the command line
    parsed,               \* the namespace as parse_args returned it (history)
    args,                 \* the namespace object, Some(record) once parsed
    seed,                 \* the seed given to seed_everything
    logdir,               \* the directory created by args.logs.mkdir
    dm,                   \* the data module
    dict_args,            \* vars(args)
    model,                \* the model
    logger,               \* the TensorBoardLogger
    early_stop,           \* the EarlyStopping callback
    checkpoint_callback,  \* the ModelCheckpoint callback
    trainer,              \* the Trainer
    fitCalls,             \* the arguments of each trainer.fit call
    best_model_path,      \* checkpoint_callback.best_model_path
    printed,              \* the messages printed
    trace,                \* every call and attribute read out of the script, in order
    raisedAt,             \* the call that raised, None if none did
    exitCode              \* the process's exit status, None while running

vars == <<pc, argv, parsed, args, seed, logdir, dm, dict_args, model, logger,
          early_stop, checkpoint_callback, trainer, fitCalls, best_model_path,
          printed, trace, raisedAt, exitCode>>

\* The objects main builds; none of them exists before main builds it.
objects == <<seed, logdir, dm, dict_args, model, logger, early_stop,
             checkpoint_callback, trainer, fitCalls, best_model_path, printed>>

Init ==
    /\ pc = "parse_args"
    /\ argv \in CommandLines
    /\ parsed = None
    /\ args = None
    /\ seed = None
    /\ logdir = None
    /\ dm = None
    /\ dict_args = None
    /\ model = None
    /\ logger = None
    /\ early_stop = None
    /\ checkpoint_callback = None
    /\ trainer = None
    /\ fitCalls = <<>>
    /\ best_model_path = None
    /\ printed = <<>>
    /\ trace = <<>>
    /\ raisedAt = None
    /\ exitCode = None

\* An exception out of the call `call`: nothing in main or __main__ catches
\* it, so the interpreter ends the process with status 1.
\* Variant: the exception is caught and the statement tried again.
RaiseRetry(call) ==
    /\ raisedAt' = Some(call)
    /\ UNCHANGED <<pc, exitCode>>

Raise(call) ==
    /\ pc' = "raised"
    /\ raisedAt' = Some(call)
    /\ exitCode' = Some(1)

\* The call (or external attribute read) `call` is made.
Call(call) == trace' = Append(trace, call)

\* The statements of __main__ and main in program order.
Statements ==
    <<"parse_args", "seed_everything", "mkdir", "ExceiverDataModule",
      "prepare_data", "seq_len", "model", "TensorBoardLogger", "EarlyStopping",
      "ModelCheckpoint", "strategy_branch", "Trainer", "fit", "print_completed",
      "print_saved", "sys.exit">>

\* Variant: the callbacks are built before the model.
StatementsCallbacksFirst ==
    <<"parse_args", "seed_everything", "mkdir", "ExceiverDataModule",
      "prepare_data", "seq_len", "TensorBoardLogger", "EarlyStopping",
      "ModelCheckpoint", "model", "strategy_branch", "Trainer", "fit",
      "print_completed", "print_saved", "sys.exit">>

\* The statement that follows stmt in the order `order`.
Following(order, stmt) ==
    order[(CHOOSE i \in 1..Len(order) : order[i] = stmt) + 1]

\* Variant: program order with the callbacks before the model.
AfterCallbacksFirst(stmt) == Following(StatementsCallbacksFirst, stmt)

\* Straight-line code: a statement that returns is followed by the next one.
After(stmt) == Following(Statements, stmt)

\* The current statement returned: control moves to the one after it.
Return == pc' = After(pc) /\ UNCHANGED <<raisedAt, exitCode>>

\* args = parser.parse_args(): a SystemExit out of the parser ends the run.
Parse ==
    /\ pc = "parse_args"
    /\ Call("parse_args")
    /\ \/ /\ parsed' = Some(ParseArgs(argv))
          /\ args' = Some(ParseArgs(argv))
          /\ Return
       \/ /\ Raise("parse_args")
          /\ UNCHANGED <<parsed, args>>
    /\ UNCHANGED <<argv, objects>>

\* seed_everything(2299)
SeedEverything ==
    /\ pc = "seed_everything"
    /\ Call("seed_everything")
    /\ \/ seed' = Some(SEED) /\ Return
       \/ Raise("seed_everything") /\ UNCHANGED seed
    /\ UNCHANGED <<argv, parsed, args, logdir, dm, dict_args, model, logger,
                   early_stop, checkpoint_callback, trainer, fitCalls,
                   best_model_path, printed>>

\* args.logs.mkdir(parents=True, exist_ok=True): None has no mkdir.
MakeLogDir ==
    /\ pc = "mkdir"
    /\ Call("mkdir")
    /\ \/ /\ The(args).logs # None
          /\ logdir' = The(args).logs
          /\ Return
       \/ Raise("mkdir") /\ UNCHANGED logdir
    /\ UNCHANGED <<argv, parsed, args, seed, dm, dict_args, model, logger,
                   early_stop, checkpoint_callback, trainer, fitCalls,
                   best_model_path, printed>>

\* ExceiverDataModule(data_path=args.data_path, classify=args.classify)
NewDataModule(a) ==
    [data_path |-> a.data_path, classify |-> a.classify, prepared |-> FALSE,
     n_features |-> None, val_nunique |-> None]

BuildDataModule ==
    /\ pc = "ExceiverDataModule"
    /\ Call("ExceiverDataModule")
    /\ \/ dm' = Some(NewDataModule(The(args))) /\ Return
       \/ Raise("ExceiverDataModule") /\ UNCHANGED dm
    /\ UNCHANGED <<argv, parsed, args, seed, logdir, dict_args, model, logger,
                   early_stop, checkpoint_callback, trainer, fitCalls,
                   best_model_path, printed>>

\* dm.prepare_data(): external; it may set n_features and the validation
\* data (of which main reads only the classify column's nunique()), or leave
\* either unset.
PrepareData ==
    /\ pc = "prepare_data"
    /\ Call("prepare_data")
    /\ \/ \E nf \in {None} \cup {Some(n) : n \in 1..MaxFeatures},
             nu \in {None} \cup {Some(n) : n \in 0..MaxClasses} :
             /\ dm' = Some([The(dm) EXCEPT !.prepared = TRUE,
                                           !.n_features = nf,
                                           !.val_nunique = nu])
             /\ Return
       \/ Raise("prepare_data") /\ UNCHANGED dm
    /\ UNCHANGED <<argv, parsed, args, seed, logdir, dict_args, model, logger,
                   early_stop, checkpoint_callback, trainer, fitCalls,
                   best_model_path, printed>>

\* args.seq_len = dm.n_features; dict_args = vars(args).  vars() returns the
\* namespace's own dictionary; main assigns no attribute of args afterwards.
\* Variant: the command line's seq_len is kept.
CondensedKeepSeqLen(a, d) == a

\* Variant: condensing also clears args.load.
CondensedDropLoad(a, d) == [a EXCEPT !.seq_len = d.n_features, !.load = None]

Condensed(a, d) == [a EXCEPT !.seq_len = d.n_features]

CondenseArgs ==
    /\ pc = "seq_len"
    /\ Call("dm.n_features")
    /\ \/ /\ The(dm).n_features # None
          /\ args' = Some(Condensed(The(args), The(dm)))
          /\ dict_args' = Some(Condensed(The(args), The(dm)))
          /\ Return
       \/ /\ The(dm).n_features = None
          /\ Raise("dm.n_features")
          /\ UNCHANGED <<args, dict_args>>
    /\ UNCHANGED <<argv, parsed, seed, logdir, dm, model, logger, early_stop,
                   checkpoint_callback, trainer, fitCalls, best_model_path,
                   printed>>

\* if args.classify is None: ... else: ...
\* Variant: 'if not args.classify' in place of 'is None'.
UseClassifierIfTruthy(a) == Truthy(a.classify)

UseClassifier(a) == a.classify # None

\* if args.load: ... else: ...
\* Variant: 'if args.load is not None' in place of 'if args.load'.
UseCheckpointIfNotNone(a) == a.load # None

UseCheckpoint(a) == Truthy(a.load)

\* Whether the statement evaluates dm.val_adata.obs[args.classify].nunique():
\* it is an argument of the ExceiverClassifier constructor call only.
\* Variant: classify_dim is computed before the load test.
ReadsValDataEagerly(a) == UseClassifier(a)

ReadsValData(a) == UseClassifier(a) /\ ~UseCheckpoint(a)

\* The one call that yields the model.
ModelCall(a) ==
    IF ~UseClassifier(a)
    THEN IF UseCheckpoint(a) THEN "Exceiver.load_from_checkpoint" ELSE "Exceiver"
    ELSE IF UseCheckpoint(a) THEN "ExceiverClassifier.load_from_checkpoint"
                             ELSE "ExceiverClassifier"

\* The model that call returns: its class, how it was obtained and the
\* arguments it was given (da is dict_args).
NewModel(a, d, da) ==
    IF ~UseClassifier(a)
    THEN IF UseCheckpoint(a)
         THEN [cls |-> "Exceiver", via |-> "load_from_checkpoint",
               checkpoint_path |-> a.load, classify_dim |-> None, kwargs |-> None]
         ELSE [cls |-> "Exceiver", via |-> "__init__",
               checkpoint_path |-> None, classify_dim |-> None, kwargs |-> da]
    ELSE IF UseCheckpoint(a)
         THEN [cls |-> "ExceiverClassifier", via |-> "load_from_checkpoint",
               checkpoint_path |-> a.load, classify_dim |-> None, kwargs |-> None]
         ELSE [cls |-> "ExceiverClassifier", via |-> "__init__",
               checkpoint_path |-> None, classify_dim |-> d.val_nunique,
               kwargs |-> da]

\* Lines 56-66: the argument expression is evaluated before the constructor
\* is called; a missing validation set or column raises there.
BuildModel ==
    /\ pc = "model"
    /\ LET a == The(args)
           d == The(dm)
           reads == ReadsValData(a)
       IN \/ /\ reads /\ d.val_nunique = None
             /\ Call("val_adata.nunique")
             /\ Raise("val_adata.nunique")
             /\ UNCHANGED model
          \/ /\ reads => d.val_nunique # None
             /\ trace' = trace \o (IF reads THEN <<"val_adata.nunique">> ELSE <<>>)
                               \o <<ModelCall(a)>>
             /\ \/ model' = Some(NewModel(a, d, dict_args)) /\ Return
                \/ Raise(ModelCall(a)) /\ UNCHANGED model
    /\ UNCHANGED <<argv, parsed, args, seed, logdir, dm, dict_args, logger,
                   early_stop, checkpoint_callback, trainer, fitCalls,
                   best_model_path, printed>>

\* TensorBoardLogger(save_dir=args.logs, version=args.name,
\*                   name="lightning_logs", default_hp_metric=False)
NewLogger(a) ==
    [save_dir |-> a.logs, version |-> a.name, name |-> "lightning_logs",
     default_hp_metric |-> FALSE]

BuildLogger ==
    /\ pc = "TensorBoardLogger"
    /\ Call("TensorBoardLogger")
    /\ \/ logger' = Some(NewLogger(The(args))) /\ Return
       \/ Raise("TensorBoardLogger") /\ UNCHANGED logger
    /\ UNCHANGED <<argv, parsed, args, seed, logdir, dm, dict_args, model,
                   early_stop, checkpoint_callback, trainer, fitCalls,
                   best_model_path, printed>>

\* EarlyStopping(monitor="val_MSELoss", min_delta=1e-5, patience=10,
\*               verbose=False, mode="min")
NewEarlyStopping ==
    [type |-> "EarlyStopping", monitor |-> "val_MSELoss", min_delta |-> "1e-5",
     patience |-> PATIENCE, verbose |-> FALSE, mode |-> "min"]

BuildEarlyStopping ==
    /\ pc = "EarlyStopping"
    /\ Call("EarlyStopping")
    /\ \/ early_stop' = Some(NewEarlyStopping) /\ Return
       \/ Raise("EarlyStopping") /\ UNCHANGED early_stop
    /\ UNCHANGED <<argv, parsed, args, seed, logdir, dm, dict_args, model,
                   logger, checkpoint_callback, trainer, fitCalls,
                   best_model_path, printed>>

\* ModelCheckpoint(monitor="val_MSELoss", mode="min", save_last=True)
NewModelCheckpoint ==
    [type |-> "ModelCheckpoint", monitor |-> "val_MSELoss", mode |-> "min",
     save_last |-> TRUE]

BuildModelCheckpoint ==
    /\ pc = "ModelCheckpoint"
    /\ Call("ModelCheckpoint")
    /\ \/ /\ checkpoint_callback' = Some(NewModelCheckpoint)
          /\ best_model_path' = Some("")
          /\ Return
       \/ Raise("ModelCheckpoint") /\ UNCHANGED <<checkpoint_callback, best_model_path>>
    /\ UNCHANGED <<argv, parsed, args, seed, logdir, dm, dict_args, model,
                   logger, early_stop, trainer, fitCalls, printed>>

\* if args.strategy == "ddp": pass
StrategyBranch ==
    /\ pc = "strategy_branch"
    /\ IF The(args).strategy = Some("ddp") THEN Return ELSE Return
    /\ UNCHANGED <<argv, parsed, args, objects, trace>>

\* Trainer(strategy=args.strategy, devices=1,
\*         callbacks=[early_stop, checkpoint_callback], logger=logger,
\*         profiler="simple")
\* Variant: the strategy is hard-coded.
NewTrainerDefaultStrategy(a, es, ck, lg) ==
    [strategy |-> Some("ddp"), devices |-> DEVICES, callbacks |-> <<es, ck>>,
     logger |-> lg, profiler |-> "simple"]

\* Variant: the checkpoint callback is left out.
NewTrainerOneCallback(a, es, ck, lg) ==
    [strategy |-> a.strategy, devices |-> DEVICES, callbacks |-> <<es>>,
     logger |-> lg, profiler |-> "simple"]

NewTrainer(a, es, ck, lg) ==
    [strategy |-> a.strategy, devices |-> DEVICES, callbacks |-> <<es, ck>>,
     logger |-> lg, profiler |-> "simple"]

BuildTrainer ==
    /\ pc = "Trainer"
    /\ Call("Trainer")
    /\ \/ /\ trainer' = Some(NewTrainer(The(args), The(early_stop),
                                        The(checkpoint_callback), The(logger)))
          /\ Return
       \/ Raise("Trainer") /\ UNCHANGED trainer
    /\ UNCHANGED <<argv, parsed, args, seed, logdir, dm, dict_args, model,
                   logger, early_stop, checkpoint_callback, fitCalls,
                   best_model_path, printed>>

\* trainer.fit(model, dm): the whole training loop, external.  On return the
\* checkpoint callback names the best checkpoint, if it saved one.
Fit ==
    /\ pc = "fit"
    /\ Call("fit")
    /\ fitCalls' = Append(fitCalls, [trainer |-> The(trainer),
                                     model |-> The(model), dm |-> The(dm)])
    /\ \/ /\ \E best \in {"", "best.ckpt"} : best_model_path' = Some(best)
          /\ Return
       \/ Raise("fit") /\ UNCHANGED best_model_path
    /\ UNCHANGED <<argv, parsed, args, seed, logdir, dm, dict_args, model,
                   logger, early_stop, checkpoint_callback, trainer, printed>>

\* print("Completed in {}".format(...))
PrintCompleted ==
    /\ pc = "print_completed"
    /\ printed' = Append(printed, <<"Completed in">>)
    /\ Return
    /\ UNCHANGED <<argv, parsed, args, seed, logdir, dm, dict_args, model,
                   logger, early_stop, checkpoint_callback, trainer, fitCalls,
                   best_model_path, trace>>

\* print(f"Model saved at {checkpoint_callback.best_model_path}")
PrintSaved ==
    /\ pc = "print_saved"
    /\ printed' = Append(printed, <<"Model saved at", The(best_model_path)>>)
    /\ Return
    /\ UNCHANGED <<argv, parsed, args, seed, logdir, dm, dict_args, model,
                   logger, early_stop, checkpoint_callback, trainer, fitCalls,
                   best_model_path, trace>>

\* sys.exit(main(args)): main returns None, so the status is 0.
Exit ==
    /\ pc = "sys.exit"
    /\ pc' = "exit"
    /\ exitCode' = Some(0)
    /\ UNCHANGED <<argv, parsed, args, objects, trace, raisedAt>>

Next ==
    \/ Parse
    \/ SeedEverything
    \/ MakeLogDir
    \/ BuildDataModule
    \/ PrepareData
    \/ CondenseArgs
    \/ BuildModel
    \/ BuildLogger
    \/ BuildEarlyStopping
    \/ BuildModelCheckpoint
    \/ StrategyBranch
    \/ BuildTrainer
    \/ Fit
    \/ PrintCompleted
    \/ PrintSaved
    \/ Exit

Spec == Init /\ [][Next]_vars

\* ------------------------------------------------------------------ claims

\* The number of entries of sequence s that belong to set S.
Count(s, S) == Cardinality({i \in DOMAIN s : s[i] \in S})

LoadCalls == {"Exceiver.load_from_checkpoint", "ExceiverClassifier.load_from_checkpoint"}

CtorCalls == {"Exceiver", "ExceiverClassifier"}

\* The step of the procedure a call belongs to: 1 parse arguments, 2 seed the
\* RNG, 3 build the data module, 4 build the model, 5 build the callbacks,
\* 6 build the Trainer, 7 fit; 0 for anything else.
StepOf(call) ==
    CASE call = "parse_args" -> 1
      [] call = "seed_everything" -> 2
      [] call \in {"ExceiverDataModule", "prepare_data"} -> 3
      [] call \in LoadCalls \cup CtorCalls -> 4
      [] call \in {"TensorBoardLogger", "EarlyStopping", "ModelCheckpoint"} -> 5
      [] call = "Trainer" -> 6
      [] call = "fit" -> 7
      [] OTHER -> 0

\* The steps of a complete run, call by call.
StepPlan == <<1, 2, 3, 3, 4, 5, 5, 5, 6, 7>>

IsStep(call) == StepOf(call) # 0

\* C1: the calls made so far are, step by step, a prefix of the fixed order
\* parse, seed, data module (construct + prepare), model, callbacks (logger,
\* early stopping, checkpoint), Trainer, fit; no call is made twice.
C1_FixedOrder ==
    LET t == SelectSeq(trace, IsStep)
    IN /\ Len(t) <= Len(StepPlan)
       /\ \A i \in DOMAIN t : StepOf(t[i]) = StepPlan[i]
       /\ \A i, j \in DOMAIN t : i # j => t[i] # t[j]
       /\ \A i, j \in DOMAIN t :
             t[i] = "ExceiverDataModule" /\ t[j] = "prepare_data" => i < j

C1_Witness ==
    /\ pc = "exit"
    /\ Len(SelectSeq(trace, IsStep)) = Len(StepPlan)
    /\ trace[Len(trace)] = "fit"

\* C2: at most one model-building call is ever made; once a model exists
\* exactly one was made, the model is an Exceiver iff args.classify is None
\* and an ExceiverClassifier iff it is not None, and every fit call was given
\* that model.
C2_ExclusiveVariants ==
    /\ Count(trace, LoadCalls \cup CtorCalls) <= 1
    /\ model # None =>
          /\ Count(trace, LoadCalls \cup CtorCalls) = 1
          /\ The(model).cls \in {"Exceiver", "ExceiverClassifier"}
          /\ The(model).cls = "Exceiver" <=> The(args).classify = None
          /\ The(model).cls = "ExceiverClassifier" <=> The(args).classify # None
    /\ \A i \in DOMAIN fitCalls : model # None /\ fitCalls[i].model = The(model)

C2_Witness ==
    /\ fitCalls # <<>>
    /\ The(model).cls = "ExceiverClassifier"
    /\ The(args).classify = Some("")

\* C3 as stated: the keyword arguments a constructed model received are
\* exactly the mapping parse_args returned, and the logger's save_dir is the
\* parsed logs path.
C3_PassedUnchanged ==
    /\ model # None /\ The(model).via = "__init__" => The(model).kwargs = parsed
    /\ logger # None => The(logger).save_dir = The(parsed).logs

\* C3 amended: the mapping differs from the parsed one in seq_len alone, which
\* holds dm.n_features; every other option, and the logs path given to mkdir
\* and to the logger, is the parsed value.
C3_PassedUnchangedButSeqLen ==
    /\ args # None => \A opt \in Options \ {"seq_len"} : The(args)[opt] = The(parsed)[opt]
    /\ dict_args # None =>
          dict_args = Some([The(parsed) EXCEPT !["seq_len"] = The(dm).n_features])
    /\ model # None /\ The(model).via = "__init__" =>
          The(model).kwargs = Some([The(parsed) EXCEPT !["seq_len"] = The(dm).n_features])
    /\ logdir # None => logdir = The(parsed).logs
    /\ logger # None => The(logger).save_dir = The(parsed).logs

C3_Witness ==
    /\ model # None
    /\ The(model).via = "__init__"
    /\ The(The(model).kwargs).seq_len # The(parsed).seq_len
    /\ The(parsed).seq_len # None

\* C4: fit is called at most once; once it has returned it was called exactly
\* once, with the model and the data module built earlier, on the Trainer
\* whose callbacks are the EarlyStopping and the ModelCheckpoint callback (in
\* that order, both monitoring val_MSELoss with mode min) and whose logger is
\* the TensorBoardLogger built from args.logs and args.name.
C4_FitDelegated ==
    /\ Len(fitCalls) <= 1
    /\ Count(trace, {"fit"}) = Len(fitCalls)
    /\ pc \in {"print_completed", "print_saved", "sys.exit", "exit"} =>
          /\ Len(fitCalls) = 1
          /\ fitCalls[1].model = The(model)
          /\ fitCalls[1].dm = The(dm)
          /\ fitCalls[1].trainer = The(trainer)
          /\ The(trainer).callbacks = <<The(early_stop), The(checkpoint_callback)>>
          /\ The(early_stop).type = "EarlyStopping"
          /\ The(early_stop).monitor = "val_MSELoss" /\ The(early_stop).mode = "min"
          /\ The(checkpoint_callback).type = "ModelCheckpoint"
          /\ The(checkpoint_callback).monitor = "val_MSELoss"
          /\ The(checkpoint_callback).mode = "min"
          /\ The(trainer).logger = The(logger)
          /\ The(logger).save_dir = The(args).logs
          /\ The(logger).version = The(args).name

C4_Witness ==
    /\ pc = "exit"
    /\ exitCode = Some(0)
    /\ Len(fitCalls) = 1
    /\ Len(printed) = 2

\* What holds in every state after a call raised.
StoppedWhereRaised ==
    raisedAt # None =>
       /\ pc = "raised"
       /\ trace # <<>> /\ trace[Len(trace)] = The(raisedAt)
       /\ Count(trace, raisedAt) = 1
       /\ The(raisedAt) # "fit" => fitCalls = <<>>
       /\ printed = <<>>

\* C5: once a call has raised the run is over: the raising call is the last
\* one made and was made once, fit was not called unless it is the call that
\* raised, nothing was printed, and no further step is ever taken.
C5_NoFailureHandling == []StoppedWhereRaised /\ [][raisedAt = None]_vars

C5_Witness ==
    /\ raisedAt = Some("fit")
    /\ pc = "raised"
    /\ Len(fitCalls) = 1

StrategyValues == {Some("ddp"), Some("dp")}

\* The namespace of the run that differs from this one in --strategy alone.
WithStrategy(s) == [The(args) EXCEPT !["strategy"] = s]

\* The data module as its constructor returned it.
AsConstructed(d) ==
    [d EXCEPT !.prepared = FALSE, !.n_features = None, !.val_nunique = None]

TrainerGetsStrategy ==
    trainer # None =>
       /\ The(trainer).strategy = The(args).strategy
       /\ argv.strategy = None => The(trainer).strategy = Some("ddp")
       /\ The(trainer).devices = 1

SameButModel(s) ==
    /\ dm # None => AsConstructed(The(dm)) = NewDataModule(WithStrategy(s))
    /\ logger # None => The(logger) = NewLogger(WithStrategy(s))
    /\ trainer # None =>
          /\ The(trainer).callbacks = <<The(early_stop), The(checkpoint_callback)>>
          /\ The(trainer).logger = The(logger)

\* C6 as stated (its state part): the Trainer gets args.strategy and one
\* device, and the run that differs in --strategy alone builds the same data
\* module, model, callbacks and logger.
C6_StrategyTouchesTrainerOnly ==
    /\ TrainerGetsStrategy
    /\ \A s \in StrategyValues :
          /\ SameButModel(s)
          /\ model # None =>
                The(model) = NewModel(WithStrategy(s), The(dm), Some(WithStrategy(s)))

C6_AmendedState ==
    /\ TrainerGetsStrategy
    /\ \A s \in StrategyValues :
          /\ SameButModel(s)
          /\ model # None =>
                LET other == NewModel(WithStrategy(s), The(dm), Some(WithStrategy(s)))
                    m == The(model)
                IN /\ [m EXCEPT !.kwargs = None] = [other EXCEPT !.kwargs = None]
                   /\ m.via = "load_from_checkpoint" => m = other
                   /\ m.via = "__init__" =>
                         /\ \A opt \in Options \ {"strategy"} :
                               The(m.kwargs)[opt] = The(other.kwargs)[opt]
                         /\ The(m.kwargs).strategy = The(args).strategy
                         /\ The(other.kwargs).strategy = s

\* C6 amended: as stated, except that a model built by its constructor
\* receives the strategy inside dict_args: the two runs' models then agree in
\* everything but the strategy entry of their keyword arguments.  The
\* strategy branch changes nothing but the position in the script.
C6_StrategyTouchesTrainerAndKwargs ==
    /\ []C6_AmendedState
    /\ [][pc = "strategy_branch" => UNCHANGED <<args, parsed, objects, trace>>]_vars

C6_Witness ==
    /\ trainer # None
    /\ The(trainer).strategy = Some("dp")
    /\ The(model).via = "__init__"

\* C7: a load call is made only when args.load is truthy and a constructor
\* call only when it is None or empty; a loaded model got checkpoint_path =
\* args.load and none of dict_args, seq_len or classify_dim, in the class
\* args.classify selects; a constructed model got dict_args.
C7_LoadOrConstruct ==
    /\ args = None => Count(trace, LoadCalls \cup CtorCalls) = 0
    /\ args # None =>
          LET truthy == The(args).load # None /\ The(args).load # Some("")
          IN /\ Count(trace, LoadCalls) > 0 => truthy
             /\ Count(trace, CtorCalls) > 0 => ~truthy
             /\ model # None =>
                   LET m == The(model)
                   IN IF truthy
                      THEN /\ m.via = "load_from_checkpoint"
                           /\ m.checkpoint_path = The(args).load
                           /\ m.kwargs = None /\ m.classify_dim = None
                           /\ m.cls = "Exceiver" <=> The(args).classify = None
                           /\ Count(trace, LoadCalls) = 1
                      ELSE /\ m.via = "__init__"
                           /\ m.checkpoint_path = None
                           /\ m.kwargs = dict_args /\ dict_args # None
                           /\ m.cls = "Exceiver" <=> The(args).classify = None
                           /\ Count(trace, CtorCalls) = 1

C7_Witness ==
    /\ model # None
    /\ The(args).load = Some("")
    /\ The(model).via = "__init__"
    /\ The(model).cls = "ExceiverClassifier"

ConstructedWithNFeatures ==
    model # None /\ The(model).via = "__init__" =>
       /\ The(dm).n_features # None
       /\ The(The(model).kwargs).seq_len = The(dm).n_features

SeqLenAssignedBetween ==
    args # None /\ args' # args =>
       /\ dm # None /\ The(dm).prepared
       /\ Count(trace, {"prepare_data"}) = 1
       /\ model = None /\ Count(trace, LoadCalls \cup CtorCalls) = 0
       /\ args' = Some([The(args) EXCEPT !["seq_len"] = The(dm).n_features])

\* C8: args is assigned only after prepare_data returned and before any
\* model call, the assignment sets seq_len to dm.n_features, and a model
\* built by its constructor received seq_len = dm.n_features.
C8_SeqLenFromData == []ConstructedWithNFeatures /\ [][SeqLenAssignedBetween]_vars

C8_Witness ==
    /\ model # None
    /\ The(model).via = "__init__"
    /\ The(parsed).seq_len # None
    /\ The(parsed).seq_len # The(dm).n_features
    /\ pc = "exit"

\* C9: the validation data is read at most once, and only when args.classify
\* is not None and args.load is falsy; on that path the model is an
\* ExceiverClassifier constructed with classify_dim = the number of distinct
\* values read and with dict_args; on the other paths no read was made and
\* the model got no classify_dim.
C9_ClassifyDim ==
    LET reads == Count(trace, {"val_adata.nunique"})
    IN /\ reads <= 1
       /\ args = None => reads = 0
       /\ args # None =>
             LET onPath == /\ The(args).classify # None
                           /\ (The(args).load = None \/ The(args).load = Some(""))
             IN /\ reads > 0 => onPath
                /\ model # None =>
                      IF onPath
                      THEN /\ reads = 1
                           /\ The(model).cls = "ExceiverClassifier"
                           /\ The(model).via = "__init__"
                           /\ The(model).classify_dim # None
                           /\ The(model).classify_dim = The(dm).val_nunique
                           /\ The(model).kwargs = dict_args /\ dict_args # None
                      ELSE reads = 0 /\ The(model).classify_dim = None

C9_Witness ==
    /\ model # None
    /\ The(model).cls = "ExceiverClassifier"
    /\ The(model).via = "__init__"
    /\ The(model).classify_dim = Some(0)
    /\ fitCalls # <<>>

====
